---- MODULE Spec2Model ----
(***************************************************************************)
(* Narration orchestration of Photo1/app/(tabs)/index.tsx                  *)
(* (MultilingualCameraApp): the React state of the component, the          *)
(* asynchronous runs of speakCurrentDescription, the auto-play timer, the  *)
(* teardown handlers (stop branch, changeLanguage, returnToCamera) and the *)
(* two platform collaborators (expo-av sounds, the expo-speech queue).     *)
(*                                                                         *)
(* Every async function is cut at its await points: one action per         *)
(* continuation.  A run of speakCurrentDescription reads the values its    *)
(* useCallback closure captured (language, captions, audioMode,            *)
(* hazardInfo, isPlaying), not the current state.                          *)
(***************************************************************************)
EXTENDS Integers, Sequences, FiniteSets, TLC

VARIABLES
  currentScreen,         \* 'camera' | 'result'                     (line 54)
  currentLanguageIndex,  \* index into LANGUAGES                    (line 56)
  isPlaying,             \*                                         (line 57)
  captions,              \* id of the analysis whose captions are held, 0 = {}
  hazardInfo,            \* id of the hazard report held, 0 = null  (line 59)
  isLoading,             \* a captureImage run is in flight         (line 60)
  audioMode,             \* 'server' | 'tts'                        (line 61)
  isPlayingDescription,  \*                                         (line 63)
  isPlayingHazard,       \*                                         (line 64)
  soundRef,              \* soundRef.current: 0 = null, else the sound's id
  timer,                 \* the pending auto-play timeout: <<>> or <<closure>>
  sessions,              \* the runs of speakCurrentDescription past the caption check
  speech,                \* expo-speech's utterance queue, head is being spoken
  pending,               \* teardown handlers suspended in await unloadAsync()
  alert,                 \* the last Alert.alert shown
  commands,              \* how many taps and swipes the user has made
  report,                \* hazard text processing: the hazard report given
  targetLanguage,        \*   the index of the language asked for
  text,                  \*   the text worked on: safetyMessage, then its translation
  textPc                 \*   "off" | "report" | "message" | "statement" | "again"

vars == <<currentScreen, currentLanguageIndex, isPlaying, captions, hazardInfo,
          isLoading, audioMode, isPlayingDescription, isPlayingHazard, soundRef,
          timer, sessions, speech, pending, alert, commands,
          report, targetLanguage, text, textPc>>

\* the variables of the component and of the model's bookkeeping
appVars == <<currentScreen, currentLanguageIndex, isPlaying, captions, hazardInfo,
             isLoading, audioMode, isPlayingDescription, isPlayingHazard, soundRef,
             timer, sessions, speech, pending, alert, commands>>

\* the variables of the hazard text processing
textVars == <<report, targetLanguage, text, textPc>>

(***************************************************************************)
(* Bounds of the model.                                                    *)
(***************************************************************************)
\* runs of speakCurrentDescription that pass the caption check in one behaviour
MaxSessions == 2
\* taps and swipes of the user in one behaviour
MaxCommands == 2

(***************************************************************************)
(* LanguageCatalog                                                         *)
(***************************************************************************)
LANGUAGES == <<"english", "hindi", "bengali", "telugu", "tamil", "malayalam">>

NumLanguages == 6

LangCode(i) == LANGUAGES[i + 1]

(***************************************************************************)
(* Text.  A string is the sequence of its characters; a localized phrase   *)
(* of the translation table is one symbol "<code>:<english phrase>", which *)
(* is no ASCII letter, digit, white space or punctuation mark, as the      *)
(* letters of the Indic scripts are none of these.                         *)
(***************************************************************************)
UpperCase ==
  <<"A", "B", "C", "D", "E", "F", "G", "H", "I", "J", "K", "L", "M", "N", "O", "P",
    "Q", "R", "S", "T", "U", "V", "W", "X", "Y", "Z">>

LowerCase ==
  <<"a", "b", "c", "d", "e", "f", "g", "h", "i", "j", "k", "l", "m", "n", "o", "p",
    "q", "r", "s", "t", "u", "v", "w", "x", "y", "z">>

\* String.prototype.toLowerCase, per character
LowerChar(c) ==
  IF \E i \in 1..26 : UpperCase[i] = c
  THEN LowerCase[CHOOSE i \in 1..26 : UpperCase[i] = c]
  ELSE c

toLowerCase(s) == [i \in 1..Len(s) |-> LowerChar(s[i])]

\* the regular expression classes \d and \s
IsDigit(c) == c \in {"0", "1", "2", "3", "4", "5", "6", "7", "8", "9"}

IsSpace(c) == c \in {" ", "\n", "\t"}

\* lit occurs in s at position i (compared as the 'i' flag compares when ci)
LitAt(s, i, lit, ci) ==
  /\ i + Len(lit) - 1 <= Len(s)
  /\ \A k \in 1..Len(lit) :
       IF ci THEN LowerChar(s[i + k - 1]) = LowerChar(lit[k])
       ELSE s[i + k - 1] = lit[k]

\* String.prototype.includes
includes(s, lit) == \E i \in 1..Len(s) : LitAt(s, i, lit, FALSE)

\* the first position >= i of s that is not a digit (not white space)
RECURSIVE SkipDigits(_, _)
SkipDigits(s, i) ==
  IF i <= Len(s) /\ IsDigit(s[i]) THEN SkipDigits(s, i + 1) ELSE i

RECURSIVE SkipSpaces(_, _)
SkipSpaces(s, i) ==
  IF i <= Len(s) /\ IsSpace(s[i]) THEN SkipSpaces(s, i + 1) ELSE i

\* i if s[i] is not c, else i + 1: an optional character, taken greedily
SkipOpt(s, i, c) == IF i <= Len(s) /\ s[i] = c THEN i + 1 ELSE i

\* the least element of a non-empty set of positions
Least(S) == CHOOSE x \in S : \A y \in S : x <= y

\* String.prototype.slice(i - 1)
From(s, i) == SubSeq(s, i, Len(s))

Txt_detected ==
  <<"d", "e", "t", "e", "c", "t", "e", "d">>

Txt_no_objects_detected ==
  <<"n", "o", " ", "o", "b", "j", "e", "c", "t", "s", " ", "d", "e", "t", "e", "c",
    "t", "e", "d">>

Txt_Detected_ ==
  <<"d", "e", "t", "e", "c", "t", "e", "d", " ">>

Txt__object ==
  <<" ", "o", "b", "j", "e", "c", "t">>

Txt_SafetyAlertColon ==
  <<"S", "a", "f", "e", "t", "y", " ", "a", "l", "e", "r", "t", ":", " ">>

Txt_Fallback ==
  <<"S", "a", "f", "e", "t", "y", " ", "a", "l", "e", "r", "t", ":", " ", "H", "a",
    "z", "a", "r", "d", "o", "u", "s", " ", "o", "b", "j", "e", "c", "t", "s", " ",
    "d", "e", "t", "e", "c", "t", "e", "d", " ", "i", "n", " ", "t", "h", "e", " ",
    "i", "m", "a", "g", "e">>

Txt_NoHazard ==
  <<"N", "o", " ", "h", "a", "z", "a", "r", "d", "o", "u", "s", " ", "o", "b", "j",
    "e", "c", "t", "s", " ", "p", "r", "e", "s", "e", "n", "t", " ", "i", "n", " ",
    "t", "h", "e", " ", "i", "m", "a", "g", "e">>

Txt_NoHazardInfo ==
  <<"N", "o", " ", "h", "a", "z", "a", "r", "d", " ", "i", "n", "f", "o", "r", "m",
    "a", "t", "i", "o", "n", " ", "a", "v", "a", "i", "l", "a", "b", "l", "e">>

Txt_KnifeScissors ==
  <<"D", "e", "t", "e", "c", "t", "e", "d", " ", "2", " ", "o", "b", "j", "e", "c",
    "t", "s", ":", "\n", "1", ".", " ", "K", "n", "i", "f", "e", " ", "-", " ", "0",
    ".", "9", "1", " ", "(", "c", "l", "o", "s", "e", ",", " ", "l", "e", "f", "t",
    ")", "\n", "2", ".", " ", "S", "c", "i", "s", "s", "o", "r", "s", " ", "-", " ",
    "0", ".", "7", "7", " ", "(", "f", "a", "r", ",", " ", "r", "i", "g", "h", "t",
    ")">>

Txt_NoObjects ==
  <<"N", "o", " ", "o", "b", "j", "e", "c", "t", "s", " ", "d", "e", "t", "e", "c",
    "t", "e", "d">>

Txt_OneKnife ==
  <<"D", "e", "t", "e", "c", "t", "e", "d", " ", "1", " ", "o", "b", "j", "e", "c",
    "t", ":", "\n", "1", ".", " ", "K", "n", "i", "f", "e", " ", "-", " ", "0", ".",
    "9", "5", " ", "(", "v", "e", "r", "y", " ", "c", "l", "o", "s", "e", ",", " ",
    "c", "e", "n", "t", "e", "r", ")">>

Txt_ScissorsMedium ==
  <<"D", "e", "t", "e", "c", "t", "e", "d", " ", "1", " ", "o", "b", "j", "e", "c",
    "t", ":", "\n", "1", ".", " ", "S", "c", "i", "s", "s", "o", "r", "s", " ", "-",
    " ", "0", ".", "8", "0", " ", "(", "m", "e", "d", "i", "u", "m", " ", "d", "i",
    "s", "t", "a", "n", "c", "e", ",", " ", "c", "e", "n", "t", "e", "r", ")">>

PhraseNames ==
  <<"Safety alert",
    "No hazardous objects present in the image",
    "detected",
    "close",
    "very close",
    "medium distance",
    "far",
    "left",
    "center",
    "right",
    "Scissors",
    "Knife">>

Phrases ==
  <<<<"S", "a", "f", "e", "t", "y", " ", "a", "l", "e", "r", "t">>,
  <<"N", "o", " ", "h", "a", "z", "a", "r", "d", "o", "u", "s", " ", "o", "b", "j",
    "e", "c", "t", "s", " ", "p", "r", "e", "s", "e", "n", "t", " ", "i", "n", " ",
    "t", "h", "e", " ", "i", "m", "a", "g", "e">>,
  <<"d", "e", "t", "e", "c", "t", "e", "d">>,
  <<"c", "l", "o", "s", "e">>,
  <<"v", "e", "r", "y", " ", "c", "l", "o", "s", "e">>,
  <<"m", "e", "d", "i", "u", "m", " ", "d", "i", "s", "t", "a", "n", "c", "e">>,
  <<"f", "a", "r">>,
  <<"l", "e", "f", "t">>,
  <<"c", "e", "n", "t", "e", "r">>,
  <<"r", "i", "g", "h", "t">>,
  <<"S", "c", "i", "s", "s", "o", "r", "s">>,
  <<"K", "n", "i", "f", "e">>>>


(***************************************************************************)
(* hasHazardousObjects                                                     *)
(***************************************************************************)
\* hasHazardousObjects as it would be without the test for 'no objects detected'
hasHazardousObjects_AnyDetected(hazard) ==
  IF hazard = <<>> THEN FALSE
  ELSE includes(toLowerCase(hazard), Txt_detected)

hasHazardousObjects(hazard) ==
  IF hazard = <<>> THEN FALSE
  ELSE LET lowerHazard == toLowerCase(hazard)
       IN  includes(lowerHazard, Txt_detected)
             /\ ~includes(lowerHazard, Txt_no_objects_detected)

(***************************************************************************)
(* The clean-up of the hazard text, one operator per replace() call.       *)
(* Each Match operator gives the position after a match that starts at i,  *)
(* or 0 when the expression does not match there.                          *)
(***************************************************************************)
\* /Detected \d+ objects?:?\n?/i
MatchCount(s, i) ==
  IF ~LitAt(s, i, Txt_Detected_, TRUE) THEN 0
  ELSE LET d == i + Len(Txt_Detected_)
           e == SkipDigits(s, d)
       IN  IF e = d \/ ~LitAt(s, e, Txt__object, TRUE) THEN 0
           ELSE LET o == e + Len(Txt__object)
                    p == IF o <= Len(s) /\ LowerChar(s[o]) = "s" THEN o + 1 ELSE o
                IN  SkipOpt(s, SkipOpt(s, p, ":"), "\n")

\* /\d+\.\s*/g
MatchNumbering(s, i) ==
  LET e == SkipDigits(s, i)
  IN  IF e = i \/ e > Len(s) \/ s[e] # "." THEN 0 ELSE SkipSpaces(s, e + 1)

\* /\s*-\s*\d+\.\d+\s*/g
MatchConfidence(s, i) ==
  LET a == SkipSpaces(s, i)
  IN  IF a > Len(s) \/ s[a] # "-" THEN 0
      ELSE LET b == SkipSpaces(s, a + 1)
               c == SkipDigits(s, b)
           IN  IF c = b \/ c > Len(s) \/ s[c] # "." THEN 0
               ELSE LET d == SkipDigits(s, c + 1)
                    IN  IF d = c + 1 THEN 0 ELSE SkipSpaces(s, d)

\* /\(([^)]+)\)/g : the position after the closing parenthesis
MatchParens(s, i) ==
  IF s[i] # "(" THEN 0
  ELSE LET close == {j \in (i + 1)..Len(s) : s[j] = ")"}
       IN  IF close = {} \/ Least(close) = i + 1 THEN 0 ELSE Least(close) + 1

\* hazardText.replace(/Detected \d+ objects?:?\n?/i, 'Safety alert: '): first match only
ReplaceCount(s) ==
  LET at == {i \in 1..Len(s) : MatchCount(s, i) # 0}
  IN  IF at = {} THEN s
      ELSE SubSeq(s, 1, Least(at) - 1) \o Txt_SafetyAlertColon
             \o From(s, MatchCount(s, Least(at)))

\* The 'g' replacements scan from the left: the next match is the leftmost one
\* at or after the end of the previous match.
RECURSIVE RemoveNumbering(_, _)
RemoveNumbering(s, i) ==
  LET at == {j \in i..Len(s) : MatchNumbering(s, j) # 0}
  IN  IF at = {} THEN From(s, i)
      ELSE SubSeq(s, i, Least(at) - 1) \o RemoveNumbering(s, MatchNumbering(s, Least(at)))

RECURSIVE RemoveConfidence(_, _)
RemoveConfidence(s, i) ==
  LET at == {j \in i..Len(s) : MatchConfidence(s, j) # 0}
  IN  IF at = {} THEN From(s, i)
      ELSE SubSeq(s, i, Least(at) - 1) \o RemoveConfidence(s, MatchConfidence(s, Least(at)))

RECURSIVE UnwrapParens(_, _)
UnwrapParens(s, i) ==
  LET at == {j \in i..Len(s) : MatchParens(s, j) # 0}
  IN  IF at = {} THEN From(s, i)
      ELSE SubSeq(s, i, Least(at) - 1)
             \o SubSeq(s, Least(at) + 1, MatchParens(s, Least(at)) - 2)
             \o UnwrapParens(s, MatchParens(s, Least(at)))

\* String.prototype.trim
trim(s) ==
  LET keep == {i \in 1..Len(s) : ~IsSpace(s[i])}
  IN  IF keep = {} THEN <<>>
      ELSE SubSeq(s, Least(keep), CHOOSE x \in keep : \A y \in keep : x >= y)

cleanHazardText(hazard) ==
  trim(UnwrapParens(RemoveConfidence(RemoveNumbering(ReplaceCount(hazard), 1), 1), 1))

\* safetyMessage as it would be without the else branch of the hazard test
safetyMessage_NoElse(hazard) ==
  IF hasHazardousObjects(hazard)
  THEN IF cleanHazardText(hazard) # <<>> THEN cleanHazardText(hazard) ELSE Txt_Fallback
  ELSE <<>>

\* the safetyMessage of speakCurrentDescription, before translation
safetyMessage(hazard) ==
  IF hasHazardousObjects(hazard)
  THEN IF cleanHazardText(hazard) # <<>> THEN cleanHazardText(hazard) ELSE Txt_Fallback
  ELSE Txt_NoHazard

(***************************************************************************)
(* translateHazardInfo                                                     *)
(***************************************************************************)
\* the localized entry of phrase k in the table of the language `code`
Localized(code, k) == <<code \o ":" \o PhraseNames[k]>>

\* translations[code], in the order Object.entries gives: the insertion order
translations(code) ==
  IF code = "english" THEN <<>>
  ELSE [k \in 1..Len(Phrases) |-> <<Phrases[k], Localized(code, k)>>]

\* text.replace(new RegExp(english, 'gi'), translated)
RECURSIVE ReplaceAll(_, _, _, _)
ReplaceAll(s, i, english, translated) ==
  LET at == {j \in i..Len(s) : LitAt(s, j, english, TRUE)}
  IN  IF at = {} THEN From(s, i)
      ELSE SubSeq(s, i, Least(at) - 1) \o translated
             \o ReplaceAll(s, Least(at) + Len(english), english, translated)

\* Object.entries(langTranslations).forEach(...), from entry k on
RECURSIVE TranslateFrom(_, _, _)
TranslateFrom(s, table, k) ==
  IF k > Len(table) THEN s
  ELSE TranslateFrom(ReplaceAll(s, 1, table[k][1], table[k][2]), table, k + 1)

translateHazardInfo(hazardText, code) ==
  IF code = "english" THEN hazardText
  ELSE TranslateFrom(hazardText, translations(code), 1)

(***************************************************************************)
(* The upstream analysis results the model draws from (the response of     *)
(* /analyze-image): per language whether a caption is present and whether  *)
(* it carries audio_base64, and the hazard_detection text (<<>>: absent).  *)
(***************************************************************************)
LangIndexes == 0..(NumLanguages - 1)

AnalysisResults ==
  << [has_caption |-> TRUE,
      image_caption |-> [l \in LangIndexes |-> "audio"],
      hazard_detection |-> Txt_KnifeScissors],
     [has_caption |-> TRUE,
      image_caption |-> [l \in LangIndexes |->
                           IF l = 0 THEN "audio" ELSE IF l = 1 THEN "text" ELSE "none"],
      hazard_detection |-> <<>>],
     [has_caption |-> FALSE,
      image_caption |-> [l \in LangIndexes |-> "none"],
      hazard_detection |-> Txt_NoObjects] >>

\* the values hazardInfo takes; the state holds the position in this table
HazardTexts == <<Txt_KnifeScissors, Txt_NoObjects, Txt_NoHazardInfo>>

HazardText(h) == IF h = 0 THEN <<>> ELSE HazardTexts[h]

HazardId(t) == CHOOSE h \in 1..Len(HazardTexts) : HazardTexts[h] = t

\* captions[LANGUAGES[l].code] of the captions of analysis a: "none", "text" (no
\* audio_base64) or "audio"
CaptionOf(a, l) == IF a = 0 THEN "none" ELSE AnalysisResults[a].image_caption[l]

\* the text handed to playTTSAudio in the safety phase, per hazardInfo and language
SafetyStatement(h, l) == translateHazardInfo(safetyMessage(HazardText(h)), LangCode(l))

SafetyTable ==
  [h \in 0..Len(HazardTexts) |-> [l \in LangIndexes |-> SafetyStatement(h, l)]]

SafetyMessageTable == [h \in 0..Len(HazardTexts) |-> safetyMessage(HazardText(h))]

\* one more tap or swipe of the user
UserCommand == commands < MaxCommands /\ commands' = commands + 1

(***************************************************************************)
(* Closures and sessions                                                   *)
(***************************************************************************)
\* what a speakCurrentDescription closure captured at its render
Closure(cap, lang, mode, hz, playing) ==
  [cap |-> cap, lang |-> lang, mode |-> mode, hz |-> hz, playing |-> playing]

\* the closure of the latest render: what the speak button calls
Current == Closure(captions, currentLanguageIndex, audioMode, hazardInfo, isPlaying)

\* the auto-play effect as it would be if it never set the timeout
AutoPlayEffect_Never(screen, cap, lang, mode, hz, playing) == <<>>

\* The auto-play effect after a render in which currentLanguageIndex, currentScreen
\* or captions changed: the old timeout is cleared and, on the result screen with
\* captions, a new one is set that calls the speakCurrentDescription of that render.
AutoPlayEffect(screen, cap, lang, mode, hz, playing) ==
  IF screen = "result" /\ cap # 0
  THEN <<Closure(cap, lang, mode, hz, playing)>>
  ELSE <<>>

PcDesc == {"sa_unload", "sa_write", "sa_load", "sa_play", "tts_desc"}

\* a run that has ended: normally, through catch (error), or never (it waits on
\* a promise that cannot settle any more)
PcEnded == {"done", "failed", "hung"}

Live(x) == x.pc \notin PcEnded

PhaseOf(x) ==
  IF x.pc \in PcDesc THEN "desc"
  ELSE IF x.pc = "pause" THEN "pause"
  ELSE "safety"

NewSession(c, pc, call) ==
  [pc |-> pc, cap |-> c.cap, lang |-> c.lang, hz |-> c.hz,
   snd |-> "none", file |-> "none", calls |-> <<call>>,
   serverError |-> FALSE, tornBy |-> "none", tornAt |-> "none"]

\* A run that has ended reads its closure no more: what it captured is dropped,
\* and so is the bookkeeping of the teardown it lived through.
Ended(x, end) ==
  [x EXCEPT !.pc = end, !.cap = 0, !.lang = 0, !.hz = 0,
            !.tornBy = "none", !.tornAt = "none"]

\* sound.unloadAsync() on the sound id: it stops, its status callback reports
\* isLoaded false without an error, so the promise of playServerAudio never settles
Unload(ss, id) ==
  IF id = 0 THEN ss
  ELSE [ss EXCEPT ![id] =
          LET x == [@ EXCEPT !.snd = IF @ \in {"playing", "finished"} THEN "gone" ELSE @]
          IN  IF x.pc = "sa_play" THEN Ended(x, "hung") ELSE x]

\* Speech.stop(): the queue is dropped; onDone and onError of its utterances are
\* never called, so the promises of playTTSAudio never settle
StopSpeech(ss) ==
  [i \in 1..Len(ss) |->
     IF ss[i].pc \in {"tts_desc", "tts_safety"} THEN Ended(ss[i], "hung") ELSE ss[i]]

\* bookkeeping: the first teardown that reset the flags under a live session,
\* and the phase the session was in
MarkTorn(ss, kind) ==
  [i \in 1..Len(ss) |->
     IF Live(ss[i]) /\ ss[i].tornBy = "none"
     THEN [ss[i] EXCEPT !.tornBy = kind, !.tornAt = PhaseOf(ss[i])] ELSE ss[i]]

(***************************************************************************)
(* Teardown: the stop branch of speakCurrentDescription (kind "stop"),     *)
(* changeLanguage ("lang") and returnToCamera ("camera") share their first *)
(* lines.                                                                  *)
(***************************************************************************)
\* TeardownFinish as it would be if changeLanguage did not take the remainder
TeardownFinish_NoWrap(kind, ss, clearRef, tm) ==
  /\ soundRef' = IF clearRef THEN 0 ELSE soundRef
  /\ speech' = <<>>
  /\ sessions' = StopSpeech(MarkTorn(ss, kind))
  /\ isPlaying' = FALSE
  /\ isPlayingDescription' = FALSE
  /\ isPlayingHazard' = FALSE
  /\ currentLanguageIndex' =
       IF kind = "lang" THEN currentLanguageIndex + 1 ELSE currentLanguageIndex
  /\ currentScreen' = IF kind = "camera" THEN "camera" ELSE currentScreen
  /\ captions' = IF kind = "camera" THEN 0 ELSE captions
  /\ hazardInfo' = IF kind = "camera" THEN 0 ELSE hazardInfo
  /\ timer' = IF kind = "stop" THEN tm
              ELSE AutoPlayEffect(currentScreen', captions', currentLanguageIndex',
                                  audioMode, hazardInfo', FALSE)
  /\ UNCHANGED <<isLoading, audioMode, alert>>

\* TeardownFinish as it would be if the auto-play effect did not run again after
\* changeLanguage and returnToCamera: the timeout set before stays
TeardownFinish_KeepsTimer(kind, ss, clearRef, tm) ==
  /\ soundRef' = IF clearRef THEN 0 ELSE soundRef
  /\ speech' = <<>>
  /\ sessions' = StopSpeech(MarkTorn(ss, kind))
  /\ isPlaying' = FALSE
  /\ isPlayingDescription' = FALSE
  /\ isPlayingHazard' = FALSE
  /\ currentLanguageIndex' =
       IF kind = "lang" THEN (currentLanguageIndex + 1) % NumLanguages
       ELSE currentLanguageIndex
  /\ currentScreen' = IF kind = "camera" THEN "camera" ELSE currentScreen
  /\ captions' = IF kind = "camera" THEN 0 ELSE captions
  /\ hazardInfo' = IF kind = "camera" THEN 0 ELSE hazardInfo
  /\ timer' = tm
  /\ UNCHANGED <<isLoading, audioMode, alert>>

\* TeardownFinish as it would be if returnToCamera reset the language too
TeardownFinish_CameraResetsLanguage(kind, ss, clearRef, tm) ==
  /\ soundRef' = IF clearRef THEN 0 ELSE soundRef
  /\ speech' = <<>>
  /\ sessions' = StopSpeech(MarkTorn(ss, kind))
  /\ isPlaying' = FALSE
  /\ isPlayingDescription' = FALSE
  /\ isPlayingHazard' = FALSE
  /\ currentLanguageIndex' =
       IF kind = "lang" THEN (currentLanguageIndex + 1) % NumLanguages
       ELSE IF kind = "camera" THEN 0 ELSE currentLanguageIndex
  /\ currentScreen' = IF kind = "camera" THEN "camera" ELSE currentScreen
  /\ captions' = IF kind = "camera" THEN 0 ELSE captions
  /\ hazardInfo' = IF kind = "camera" THEN 0 ELSE hazardInfo
  /\ timer' = IF kind = "stop" THEN tm
              ELSE AutoPlayEffect(currentScreen', captions', currentLanguageIndex',
                                  audioMode, hazardInfo', FALSE)
  /\ UNCHANGED <<isLoading, audioMode, alert>>

\* from Speech.stop() to the end of the handler; clearRef: the handler came
\* through its await and runs soundRef.current = null first
TeardownFinish(kind, ss, clearRef, tm) ==
  /\ soundRef' = IF clearRef THEN 0 ELSE soundRef
  /\ speech' = <<>>
  /\ sessions' = StopSpeech(MarkTorn(ss, kind))
  /\ isPlaying' = FALSE
  /\ isPlayingDescription' = FALSE
  /\ isPlayingHazard' = FALSE
  /\ currentLanguageIndex' =
       IF kind = "lang" THEN (currentLanguageIndex + 1) % NumLanguages
       ELSE currentLanguageIndex
  /\ currentScreen' = IF kind = "camera" THEN "camera" ELSE currentScreen
  /\ captions' = IF kind = "camera" THEN 0 ELSE captions
  /\ hazardInfo' = IF kind = "camera" THEN 0 ELSE hazardInfo
  /\ timer' = IF kind = "stop" THEN tm
              ELSE AutoPlayEffect(currentScreen', captions', currentLanguageIndex',
                                  audioMode, hazardInfo', FALSE)
  /\ UNCHANGED <<isLoading, audioMode, alert>>

\* if (soundRef.current) { await soundRef.current.unloadAsync(); ... }
TeardownBegin(kind, ss, tm) ==
  IF soundRef # 0
  THEN /\ pending' = Append(pending, kind)
       /\ sessions' = Unload(ss, soundRef)
       /\ timer' = tm
       /\ UNCHANGED <<currentScreen, currentLanguageIndex, isPlaying, captions,
                      hazardInfo, isLoading, audioMode, isPlayingDescription,
                      isPlayingHazard, soundRef, speech, alert>>
  ELSE /\ TeardownFinish(kind, ss, FALSE, tm)
       /\ UNCHANGED pending

\* the await of a suspended teardown handler resolves
TeardownResume ==
  \E i \in 1..Len(pending) :
    /\ pending' = SubSeq(pending, 1, i - 1) \o SubSeq(pending, i + 1, Len(pending))
    /\ TeardownFinish(pending[i], sessions, TRUE, timer)
    /\ UNCHANGED commands
    /\ UNCHANGED textVars

(***************************************************************************)
(* speakCurrentDescription, called with the closure c; tm is the timer     *)
(* the call leaves behind.                                                 *)
(***************************************************************************)
\* playTTSAudio as the first attempt of the description
StartTTS(c) ==
  /\ sessions' = Append(sessions, NewSession(c, "tts_desc", "D_tts"))
  /\ speech' = Append(speech, [s |-> Len(sessions) + 1, unit |-> "desc"])

\* playServerAudio up to its first await
StartServer(c) ==
  /\ sessions' = Append(Unload(sessions, soundRef),
                        NewSession(c, IF soundRef # 0 THEN "sa_unload" ELSE "sa_write",
                                   "D_server"))
  /\ speech' = speech

\* speakCurrentDescription as it would be without the check of currentCaption
speakCurrentDescription_NoCaptionCheck(c, tm) ==
  IF c.playing
  THEN TeardownBegin("stop", sessions, tm)
  ELSE /\ Len(sessions) < MaxSessions
       /\ isPlaying' = TRUE
       /\ isPlayingDescription' = TRUE
       /\ IF c.mode = "server" /\ CaptionOf(c.cap, c.lang) = "audio"
          THEN StartServer(c)
          ELSE StartTTS(c)
       /\ timer' = tm
       /\ UNCHANGED <<currentScreen, currentLanguageIndex, captions, hazardInfo,
                      isLoading, audioMode, isPlayingHazard, soundRef, pending, alert>>

speakCurrentDescription(c, tm) ==
  IF c.playing
  THEN TeardownBegin("stop", sessions, tm)
  ELSE IF CaptionOf(c.cap, c.lang) = "none"
  THEN /\ alert' = "NoDescription"
       /\ timer' = tm
       /\ UNCHANGED <<currentScreen, currentLanguageIndex, isPlaying, captions,
                      hazardInfo, isLoading, audioMode, isPlayingDescription,
                      isPlayingHazard, soundRef, sessions, speech, pending>>
  ELSE /\ Len(sessions) < MaxSessions
       /\ isPlaying' = TRUE
       /\ isPlayingDescription' = TRUE
       /\ IF c.mode = "server" /\ CaptionOf(c.cap, c.lang) = "audio"
          THEN StartServer(c)
          ELSE StartTTS(c)
       /\ timer' = tm
       /\ UNCHANGED <<currentScreen, currentLanguageIndex, captions, hazardInfo,
                      isLoading, audioMode, isPlayingHazard, soundRef, pending, alert>>

\* the speak button of the result screen
SpeakPress ==
  /\ currentScreen = "result"
  /\ UserCommand
  /\ speakCurrentDescription(Current, timer)
  /\ UNCHANGED textVars

\* the auto-play timeout fires: it calls the closure it was set with
AutoPlayFire ==
  /\ timer # <<>>
  /\ UNCHANGED commands
  /\ speakCurrentDescription(timer[1], <<>>)
  /\ UNCHANGED textVars

ChangeLanguage ==
  /\ currentScreen = "result"
  /\ UserCommand
  /\ TeardownBegin("lang", sessions, timer)
  /\ UNCHANGED textVars

ReturnToCamera ==
  /\ currentScreen = "result"
  /\ UserCommand
  /\ TeardownBegin("camera", sessions, timer)
  /\ UNCHANGED textVars

\* ToggleAudioMode as it would be if audioMode were a dependency of the
\* auto-play effect
ToggleAudioMode_Restarts ==
  /\ currentScreen = "result"
  /\ UserCommand
  /\ audioMode' = IF audioMode = "server" THEN "tts" ELSE "server"
  /\ timer' = AutoPlayEffect(currentScreen, captions, currentLanguageIndex, audioMode',
                             hazardInfo, isPlaying)
  /\ UNCHANGED <<currentScreen, currentLanguageIndex, isPlaying, captions, hazardInfo,
                 isLoading, isPlayingDescription, isPlayingHazard, soundRef,
                 sessions, speech, pending, alert>>
  /\ UNCHANGED textVars

ToggleAudioMode ==
  /\ currentScreen = "result"
  /\ UserCommand
  /\ audioMode' = IF audioMode = "server" THEN "tts" ELSE "server"
  /\ UNCHANGED <<currentScreen, currentLanguageIndex, isPlaying, captions, hazardInfo,
                 isLoading, isPlayingDescription, isPlayingHazard, soundRef, timer,
                 sessions, speech, pending, alert>>
  /\ UNCHANGED textVars

(***************************************************************************)
(* captureImage                                                            *)
(***************************************************************************)
\* handleCameraPress -> captureImage up to its awaits (takePictureAsync, fetch)
CapturePress ==
  /\ currentScreen = "camera"
  /\ UserCommand
  /\ ~isLoading
  /\ isLoading' = TRUE
  /\ UNCHANGED <<currentScreen, currentLanguageIndex, isPlaying, captions, hazardInfo,
                 audioMode, isPlayingDescription, isPlayingHazard, soundRef, timer,
                 sessions, speech, pending, alert>>
  /\ UNCHANGED textVars

\* the response arrived: the state is set and the result screen is shown
CaptureDone ==
  \E a \in 1..Len(AnalysisResults) :
    LET r == AnalysisResults[a] IN
    /\ isLoading
    /\ UNCHANGED commands
    /\ captions' = IF r.has_caption THEN a ELSE captions
    /\ hazardInfo' = HazardId(IF r.hazard_detection = <<>> THEN Txt_NoHazardInfo
                              ELSE r.hazard_detection)
    /\ currentScreen' = "result"
    /\ isLoading' = FALSE
    /\ timer' = AutoPlayEffect("result", captions', currentLanguageIndex, audioMode,
                               hazardInfo', isPlaying)
    /\ UNCHANGED <<currentLanguageIndex, isPlaying, audioMode, isPlayingDescription,
                   isPlayingHazard, soundRef, sessions, speech, pending, alert>>
    /\ UNCHANGED textVars

\* the camera, the upload or the response failed
CaptureFail ==
  /\ isLoading
  /\ UNCHANGED commands
  /\ alert' = "CaptureError"
  /\ isLoading' = FALSE
  /\ UNCHANGED <<currentScreen, currentLanguageIndex, isPlaying, captions, hazardInfo,
                 audioMode, isPlayingDescription, isPlayingHazard, soundRef, timer,
                 sessions, speech, pending>>
  /\ UNCHANGED textVars

(***************************************************************************)
(* The continuations of a run of speakCurrentDescription (session s)       *)
(***************************************************************************)
\* playServerAudio: await soundRef.current.unloadAsync() resolved
UnloadResolved(s) ==
  /\ sessions[s].pc = "sa_unload"
  /\ soundRef' = 0
  /\ sessions' = [sessions EXCEPT ![s].pc = "sa_write"]
  /\ UNCHANGED <<currentScreen, currentLanguageIndex, isPlaying, captions, hazardInfo,
                 isLoading, audioMode, isPlayingDescription, isPlayingHazard, timer,
                 speech, pending, alert, commands>>
  /\ UNCHANGED textVars

\* playServerAudio: FileSystem.writeAsStringAsync resolved
WriteOk(s) ==
  /\ sessions[s].pc = "sa_write"
  /\ sessions' = [sessions EXCEPT ![s].pc = "sa_load", ![s].file = "written"]
  /\ UNCHANGED <<currentScreen, currentLanguageIndex, isPlaying, captions, hazardInfo,
                 isLoading, audioMode, isPlayingDescription, isPlayingHazard, soundRef,
                 timer, speech, pending, alert, commands>>
  /\ UNCHANGED textVars

\* RenderedFailed as it would be without the inner try: the rejection of
\* playServerAudio reaches catch (error) and finally
RenderedFailed_NoRetry(s, ss) ==
  /\ sessions' = [ss EXCEPT ![s] = Ended(@, "failed")]
  /\ alert' = "AudioError"
  /\ isPlaying' = FALSE
  /\ isPlayingDescription' = FALSE
  /\ isPlayingHazard' = FALSE
  /\ UNCHANGED <<currentScreen, currentLanguageIndex, captions, hazardInfo, isLoading,
                 audioMode, soundRef, timer, speech, pending, commands>>

\* playServerAudio threw: catch (serverError) { await playTTSAudio(...) }
RenderedFailed(s, ss) ==
  /\ sessions' = [ss EXCEPT ![s].pc = "tts_desc",
                            ![s].calls = Append(@, "D_tts")]
  /\ speech' = Append(speech, [s |-> s, unit |-> "desc"])
  /\ UNCHANGED <<currentScreen, currentLanguageIndex, isPlaying, captions, hazardInfo,
                 isLoading, audioMode, isPlayingDescription, isPlayingHazard, soundRef,
                 timer, pending, alert, commands>>

\* playServerAudio: FileSystem.writeAsStringAsync rejected
WriteFail(s) ==
  /\ sessions[s].pc = "sa_write"
  /\ RenderedFailed(s, [sessions EXCEPT ![s].serverError = TRUE])
  /\ UNCHANGED textVars

\* playServerAudio: Audio.Sound.createAsync resolved, the sound plays
LoadOk(s) ==
  /\ sessions[s].pc = "sa_load"
  /\ soundRef' = s
  /\ sessions' = [sessions EXCEPT ![s].pc = "sa_play", ![s].snd = "playing"]
  /\ UNCHANGED <<currentScreen, currentLanguageIndex, isPlaying, captions, hazardInfo,
                 isLoading, audioMode, isPlayingDescription, isPlayingHazard, timer,
                 speech, pending, alert, commands>>
  /\ UNCHANGED textVars

\* playServerAudio: Audio.Sound.createAsync rejected
LoadFail(s) ==
  /\ sessions[s].pc = "sa_load"
  /\ RenderedFailed(s, [sessions EXCEPT ![s].serverError = TRUE])
  /\ UNCHANGED textVars

\* the description ended: setIsPlayingDescription(false), then the 1000 ms pause
DescriptionDone(s, ss) ==
  /\ sessions' = [ss EXCEPT ![s].pc = "pause"]
  /\ isPlayingDescription' = FALSE
  /\ UNCHANGED <<currentScreen, currentLanguageIndex, isPlaying, captions, hazardInfo,
                 isLoading, audioMode, isPlayingHazard, soundRef, timer, pending, alert,
                 commands>>

\* status callback: isLoaded && didJustFinish
SoundFinished(s) ==
  /\ sessions[s].pc = "sa_play"
  /\ DescriptionDone(s, [sessions EXCEPT ![s].snd = "finished", ![s].file = "deleted"])
  /\ speech' = speech
  /\ UNCHANGED textVars

\* status callback: !isLoaded && error
SoundError(s) ==
  /\ sessions[s].pc = "sa_play"
  /\ RenderedFailed(s, [sessions EXCEPT ![s].snd = "gone", ![s].serverError = TRUE])
  /\ UNCHANGED textVars

\* finally { setIsPlaying(false); setIsPlayingDescription(false); setIsPlayingHazard(false) }
Finally(s, end) ==
  /\ sessions' = [sessions EXCEPT ![s] = Ended(@, end)]
  /\ isPlaying' = FALSE
  /\ isPlayingDescription' = FALSE
  /\ isPlayingHazard' = FALSE

\* onDone of the utterance being spoken
SpeechDone ==
  /\ speech # <<>>
  /\ speech' = Tail(speech)
  /\ IF Head(speech).unit = "desc"
     THEN DescriptionDone(Head(speech).s, sessions)
     ELSE /\ Finally(Head(speech).s, "done")
          /\ UNCHANGED <<currentScreen, currentLanguageIndex, captions, hazardInfo,
                         isLoading, audioMode, soundRef, timer, pending, alert,
                         commands>>
  /\ UNCHANGED textVars

\* SpeechError as it would be if a failed description were skipped: the notice,
\* then the pause and the safety phase
SpeechError_SkipsUnit ==
  /\ speech # <<>>
  /\ speech' = Tail(speech)
  /\ alert' = "AudioError"
  /\ IF Head(speech).unit = "desc"
     THEN /\ sessions' = [sessions EXCEPT ![Head(speech).s].pc = "pause"]
          /\ isPlayingDescription' = FALSE
          /\ UNCHANGED <<isPlaying, isPlayingHazard>>
     ELSE Finally(Head(speech).s, "failed")
  /\ UNCHANGED <<currentScreen, currentLanguageIndex, captions, hazardInfo, isLoading,
                 audioMode, soundRef, timer, pending, commands>>
  /\ UNCHANGED textVars

\* SpeechError as it would be without the finally block
SpeechError_NoFinally ==
  /\ speech # <<>>
  /\ speech' = Tail(speech)
  /\ alert' = "AudioError"
  /\ sessions' = [sessions EXCEPT ![Head(speech).s] = Ended(@, "failed")]
  /\ UNCHANGED <<currentScreen, currentLanguageIndex, isPlaying, captions, hazardInfo,
                 isLoading, audioMode, isPlayingDescription, isPlayingHazard, soundRef,
                 timer, pending, commands>>
  /\ UNCHANGED textVars

\* onError of the utterance being spoken: the rejection reaches catch (error)
SpeechError ==
  /\ speech # <<>>
  /\ speech' = Tail(speech)
  /\ alert' = "AudioError"
  /\ Finally(Head(speech).s, "failed")
  /\ UNCHANGED <<currentScreen, currentLanguageIndex, captions, hazardInfo, isLoading,
                 audioMode, soundRef, timer, pending, commands>>
  /\ UNCHANGED textVars

\* the 1000 ms timeout resolved: the safety phase
PauseElapsed(s) ==
  /\ sessions[s].pc = "pause"
  /\ IF SafetyMessageTable[sessions[s].hz] # <<>>
     THEN /\ sessions' = [sessions EXCEPT ![s].pc = "tts_safety",
                                          ![s].calls = Append(@, "S_tts")]
          /\ speech' = Append(speech, [s |-> s, unit |-> "safety"])
          /\ isPlayingHazard' = TRUE
          /\ UNCHANGED <<isPlaying, isPlayingDescription>>
     ELSE /\ Finally(s, "done")
          /\ speech' = speech
  /\ UNCHANGED <<currentScreen, currentLanguageIndex, captions, hazardInfo, isLoading,
                 audioMode, soundRef, timer, pending, alert, commands>>
  /\ UNCHANGED textVars

(***************************************************************************)
(* The specification                                                       *)
(***************************************************************************)
Init ==
  /\ currentScreen = "camera"
  /\ currentLanguageIndex = 0
  /\ isPlaying = FALSE
  /\ captions = 0
  /\ hazardInfo = 0
  /\ isLoading = FALSE
  /\ audioMode = "server"
  /\ isPlayingDescription = FALSE
  /\ isPlayingHazard = FALSE
  /\ soundRef = 0
  /\ timer = <<>>
  /\ sessions = <<>>
  /\ speech = <<>>
  /\ pending = <<>>
  /\ alert = "none"
  /\ commands = 0
  /\ report = <<>>
  /\ targetLanguage = 0
  /\ text = <<>>
  /\ textPc = "off"

Next ==
  \/ CapturePress
  \/ CaptureDone
  \/ CaptureFail
  \/ SpeakPress
  \/ AutoPlayFire
  \/ ChangeLanguage
  \/ ReturnToCamera
  \/ ToggleAudioMode
  \/ TeardownResume
  \/ \E s \in 1..Len(sessions) : UnloadResolved(s)
  \/ \E s \in 1..Len(sessions) : WriteOk(s)
  \/ \E s \in 1..Len(sessions) : WriteFail(s)
  \/ \E s \in 1..Len(sessions) : LoadOk(s)
  \/ \E s \in 1..Len(sessions) : LoadFail(s)
  \/ \E s \in 1..Len(sessions) : SoundFinished(s)
  \/ \E s \in 1..Len(sessions) : SoundError(s)
  \/ \E s \in 1..Len(sessions) : PauseElapsed(s)
  \/ SpeechDone
  \/ SpeechError

Spec == Init /\ [][Next]_vars

\* The component with any language selected at the start: the index is kept when
\* the user returns to the camera, so the camera screen is reached with each.
LangInit ==
  /\ currentScreen = "camera"
  /\ currentLanguageIndex \in LangIndexes
  /\ isPlaying = FALSE
  /\ captions = 0
  /\ hazardInfo = 0
  /\ isLoading = FALSE
  /\ audioMode = "server"
  /\ isPlayingDescription = FALSE
  /\ isPlayingHazard = FALSE
  /\ soundRef = 0
  /\ timer = <<>>
  /\ sessions = <<>>
  /\ speech = <<>>
  /\ pending = <<>>
  /\ alert = "none"
  /\ commands = 0
  /\ report = <<>>
  /\ targetLanguage = 0
  /\ text = <<>>
  /\ textPc = "off"

LangSpec == LangInit /\ [][Next]_vars

(***************************************************************************)
(* The hazard text processing on its own: the safety phase of              *)
(* speakCurrentDescription builds safetyMessage from hazardInfo and hands  *)
(* its translation to playTTSAudio.  The hazard report and the language    *)
(* are drawn from the tables below; the component does not move.           *)
(***************************************************************************)
\* the hazard reports the processing is run on: absent, the text captureImage
\* stores for an absent report, no detection, the confirmation sentence, and
\* reports of detections
HazardReports ==
  << <<>>, Txt_NoHazardInfo, Txt_NoObjects, Txt_NoHazard,
     Txt_KnifeScissors, Txt_OneKnife, Txt_ScissorsMedium >>

TextInit ==
  /\ currentScreen = "camera"
  /\ currentLanguageIndex = 0
  /\ isPlaying = FALSE
  /\ captions = 0
  /\ hazardInfo = 0
  /\ isLoading = FALSE
  /\ audioMode = "server"
  /\ isPlayingDescription = FALSE
  /\ isPlayingHazard = FALSE
  /\ soundRef = 0
  /\ timer = <<>>
  /\ sessions = <<>>
  /\ speech = <<>>
  /\ pending = <<>>
  /\ alert = "none"
  /\ commands = 0
  /\ report \in {HazardReports[r] : r \in 1..Len(HazardReports)}
  /\ targetLanguage \in LangIndexes
  /\ text = <<>>
  /\ textPc = "report"

\* let safetyMessage = ...: the branch on hasHazardousObjects() and the clean-up
BuildSafetyMessage ==
  /\ textPc = "report"
  /\ text' = safetyMessage(report)
  /\ textPc' = "message"
  /\ UNCHANGED <<report, targetLanguage>>
  /\ UNCHANGED appVars

\* const translatedSafetyMessage = translateHazardInfo(safetyMessage, currentLanguage)
TranslateSafetyMessage ==
  /\ textPc = "message"
  /\ text' = translateHazardInfo(text, LangCode(targetLanguage))
  /\ textPc' = "statement"
  /\ UNCHANGED <<report, targetLanguage>>
  /\ UNCHANGED appVars

\* the statement is given back as the hazard report and processed once more
ProcessAgain ==
  /\ textPc = "statement"
  /\ report' = text
  /\ text' = translateHazardInfo(safetyMessage(text), LangCode(targetLanguage))
  /\ textPc' = "again"
  /\ UNCHANGED targetLanguage
  /\ UNCHANGED appVars

TextNext ==
  \/ BuildSafetyMessage
  \/ TranslateSafetyMessage
  \/ ProcessAgain

TextSpec == TextInit /\ [][TextNext]_vars

(***************************************************************************)
(* Properties                                                              *)
(***************************************************************************)
Sessions == 1..Len(sessions)

\* the utterances of session s that are queued or being spoken
Utterances(s) == {i \in 1..Len(speech) : speech[i].s = s}

\* the description of x went through playServerAudio and then through the fallback
FellBack(x) == Len(x.calls) >= 2 /\ x.calls[2] = "D_tts"

\* how often playTTSAudio was called for the description of x
DescTTSCalls(x) == Cardinality({i \in 1..Len(x.calls) : x.calls[i] = "D_tts"})

\* C1: a session in which no playback fails plays exactly two units, the
\* description first and the safety statement after the pause, and the safety
\* statement it speaks is a non-empty text, with a hazard reported or without.
C1_DescriptionThenSafety ==
  \A s \in Sessions :
    LET x == sessions[s] IN
    /\ x.calls[1] \in {"D_server", "D_tts"}
    /\ (x.pc \in PcDesc \cup {"pause"} /\ ~FellBack(x)) => Len(x.calls) = 1
    /\ (x.pc \in {"tts_safety", "done"} /\ ~FellBack(x)) =>
         (Len(x.calls) = 2 /\ x.calls[2] = "S_tts")
    /\ x.pc = "tts_safety" => SafetyTable[x.hz][x.lang] # <<>>

\* a session that nothing stopped speaks the "no hazard" statement after its description
C1_Witness ==
  \E s \in Sessions :
    /\ sessions[s].pc = "tts_safety"
    /\ sessions[s].calls = <<"D_server", "S_tts">>
    /\ sessions[s].tornBy = "none"
    /\ ~hasHazardousObjects(HazardText(sessions[s].hz))
    /\ Utterances(s) # {}

\* C2: a session that Stop (the speak button while isPlaying) caught in its
\* description phase never speaks its safety statement afterwards.
C2_StopInDescriptionSkipsSafety ==
  \A s \in Sessions :
    (sessions[s].tornBy = "stop" /\ sessions[s].tornAt = "desc") =>
      (\A i \in 1..Len(sessions[s].calls) : sessions[s].calls[i] # "S_tts")

\* C3: a session that Stop caught waiting in the pause never enters the safety
\* phase.
C3_PauseCancellable ==
  \A s \in Sessions :
    (sessions[s].tornBy = "stop" /\ sessions[s].tornAt = "pause") =>
      sessions[s].pc = "pause"

\* C4: at most one session (a run past the caption check that has neither ended
\* nor been stopped) is active.
C4_OneActiveSession ==
  Cardinality({s \in Sessions : Live(sessions[s]) /\ sessions[s].tornBy = "none"}) <= 1

\* C5: never two playback operations sounding together: the playing sounds and
\* the utterance being spoken (the head of the synthesis queue) are at most one.
C5_OnePlaybackInFlight ==
  Cardinality({s \in Sessions : sessions[s].snd = "playing"})
    + (IF speech # <<>> THEN 1 ELSE 0) <= 1

\* C6: once a teardown (stop, changeLanguage, returnToCamera) has reset the flags,
\* the sessions it stopped hold no sound and speak no utterance.
C6_StoppedHoldsNothing ==
  \A s \in Sessions :
    sessions[s].tornBy # "none" =>
      (sessions[s].snd \notin {"playing", "finished"} /\ Utterances(s) = {})

\* C7: after a language change no unit of a session that ran in the old language
\* is played or spoken.
C7_NoUnitOfOldLanguage ==
  \A s \in Sessions :
    sessions[s].tornBy = "lang" =>
      (sessions[s].snd # "playing" /\ Utterances(s) = {})

\* C8 as stated: while the controller is Idle a session starts only by the start
\* command of the user (the speak button).
C8_OnlyUserStarts ==
  [][(~isPlaying /\ Len(sessions') > Len(sessions)) => commands' = commands + 1]_vars

\* C8 as amended: a language change or the arrival of an analysis starts no
\* playback in its own step; on the result screen with captions it sets the
\* auto-play timer for the new language and captions; and a session starts only
\* when the user presses the speak button or that timer fires.
C8_StartsByTimerOrUser ==
  [][ /\ Len(sessions') > Len(sessions) =>
           (commands' = commands + 1 \/ (timer # <<>> /\ timer' = <<>>))
      /\ (currentLanguageIndex' # currentLanguageIndex \/ (isLoading /\ ~isLoading'
                                                             /\ currentScreen' = "result")) =>
           /\ Len(sessions') = Len(sessions)
           /\ speech' = <<>> \/ speech' = speech
           /\ \A s \in Sessions : sessions'[s].snd = "playing" => sessions[s].snd = "playing"
           /\ (currentScreen' = "result" /\ captions' # 0) =>
                /\ timer' # <<>>
                /\ timer'[1].lang = currentLanguageIndex'
                /\ timer'[1].cap = captions'
                /\ ~timer'[1].playing
    ]_vars

\* a session runs though the user has made one tap only, the one that captured
C8_Witness ==
  /\ commands = 1
  /\ currentScreen = "result"
  /\ Len(sessions) = 1
  /\ Live(sessions[1])

\* C9: when playServerAudio fails, the description is retried through
\* playTTSAudio, once; without a failure it is not; and never more than once.
C9_FallbackOnce ==
  \A s \in Sessions :
    LET x == sessions[s] IN
    /\ x.serverError => (x.calls[1] = "D_server" /\ FellBack(x))
    /\ x.calls[1] = "D_server" => DescTTSCalls(x) = (IF x.serverError THEN 1 ELSE 0)
    /\ DescTTSCalls(x) <= 1

\* the rendered audio failed, the synthesis that retried it failed too, and the
\* session ended there
C9_Witness ==
  \E s \in Sessions :
    /\ sessions[s].serverError
    /\ sessions[s].pc = "failed"
    /\ sessions[s].calls = <<"D_server", "D_tts">>

\* C10: the step in which a playback failure ends a session shows the audio
\* error notice and leaves isPlaying, isPlayingDescription and isPlayingHazard false.
C10_FailureReturnsToIdle ==
  [][(\E s \in Sessions : sessions[s].pc # "failed" /\ sessions'[s].pc = "failed") =>
       (alert' = "AudioError" /\ ~isPlaying' /\ ~isPlayingDescription'
          /\ ~isPlayingHazard')]_vars

\* the safety statement of a session failed: the notice is up and the flags are down
C10_Witness ==
  \E s \in Sessions :
    /\ sessions[s].pc = "failed"
    /\ Len(sessions[s].calls) >= 2
    /\ sessions[s].calls[Len(sessions[s].calls)] = "S_tts"
    /\ alert = "AudioError"
    /\ ~isPlaying /\ ~isPlayingDescription /\ ~isPlayingHazard

\* C11: a temporary file that playServerAudio wrote exists only while its sound is
\* being loaded or is playing: once the playback has finished, failed or been
\* cancelled, the file is deleted.
C11_TempFileDeleted ==
  \A s \in Sessions :
    sessions[s].file = "written" => sessions[s].pc \in {"sa_load", "sa_play"}

\* the speak button or the auto-play timeout calls speakCurrentDescription with a
\* closure that is not playing and has no caption for its language
StartWithoutCaption ==
  \/ SpeakPress /\ ~isPlaying /\ CaptionOf(captions, currentLanguageIndex) = "none"
  \/ AutoPlayFire /\ ~timer[1].playing /\ CaptionOf(timer[1].cap, timer[1].lang) = "none"

\* C12: a start without a caption for the language shows the "No Description"
\* notice, leaves isPlaying and the phase flags as they are and allocates nothing:
\* no run, no temporary file, no sound, no utterance.
C12_NoCaptionNoAllocation ==
  [][StartWithoutCaption =>
       /\ alert' = "NoDescription"
       /\ UNCHANGED <<isPlaying, isPlayingDescription, isPlayingHazard, sessions,
                      speech, soundRef, pending>>]_vars

\* the notice is up after a start on the result screen of an analysis without
\* captions, and nothing runs
C12_Witness ==
  /\ alert = "NoDescription"
  /\ currentScreen = "result"
  /\ CaptionOf(captions, currentLanguageIndex) = "none"
  /\ sessions = <<>>
  /\ speech = <<>>
  /\ ~isPlaying

\* C13: a new run tries playServerAudio first exactly when audioMode is 'server'
\* and the caption of its language carries audio_base64; else it calls playTTSAudio.
C13_RenderedIffPreferred ==
  [][Len(sessions') > Len(sessions) =>
       LET x == sessions'[Len(sessions')] IN
       (x.calls[1] = "D_server") <=>
         (audioMode = "server" /\ CaptionOf(x.cap, x.lang) = "audio")]_vars

\* C14: a step that changes audioMode changes nothing else: no run, sound,
\* utterance, flag, timer, language or screen.
C14_ToggleOnlyPreference ==
  [][audioMode' # audioMode =>
       UNCHANGED <<currentScreen, currentLanguageIndex, isPlaying, captions, hazardInfo,
                   isLoading, isPlayingDescription, isPlayingHazard, soundRef, timer,
                   sessions, speech, pending, alert>>]_vars

\* the preference was toggled to 'tts' under a run that plays rendered audio, and
\* the run goes on
C14_Witness ==
  /\ audioMode = "tts"
  /\ isPlaying
  /\ \E s \in Sessions :
       /\ sessions[s].calls = <<"D_server">>
       /\ sessions[s].pc \in {"sa_write", "sa_load", "sa_play"}
       /\ sessions[s].tornBy = "none"

\* the reports without a hazard: absent, the text stored for an absent report,
\* no detection, the confirmation sentence itself
NoHazardReports == {<<>>, Txt_NoHazardInfo, Txt_NoObjects, Txt_NoHazard}

\* the reports of the form 'Detected N objects:' with numbered items
DetectionReports == {Txt_KnifeScissors, Txt_OneKnife, Txt_ScissorsMedium}

\* the text occurs in s as it is written
Occurs(s, lit) == \E i \in 1..Len(s) : LitAt(s, i, lit, FALSE)

\* C15: for a report without a hazard the safety statement is exactly the
\* sentence 'No hazardous objects present in the image' for English and exactly
\* the entry of that sentence in the table of the language otherwise; it is never
\* the sentence 'Safety alert: Hazardous objects detected in the image'.
C15_NoHazardBoilerplate ==
  (textPc = "statement" /\ report \in NoHazardReports) =>
    /\ text = (IF targetLanguage = 0 THEN Txt_NoHazard
               ELSE Localized(LangCode(targetLanguage), 2))
    /\ ~Occurs(text, Txt_Fallback)

\* 'No objects detected' in Telugu: the one localized sentence
C15_Witness ==
  /\ textPc = "statement"
  /\ report = Txt_NoObjects
  /\ targetLanguage = 3
  /\ text = Localized("telugu", 2)

Txt_KnifeScissorsNormalized ==
  <<"S", "a", "f", "e", "t", "y", " ", "a", "l", "e", "r", "t", ":", " ", "K", "n",
    "i", "f", "e", " ", "c", "l", "o", "s", "e", ",", " ", "l", "e", "f", "t", " ",
    "S", "c", "i", "s", "s", "o", "r", "s", " ", "f", "a", "r", ",", " ", "r", "i",
    "g", "h", "t">>

\* C16: the safetyMessage of a detection report starts with 'Safety alert: ' and
\* holds no digit and no parenthesis (numbering, confidence scores and parentheses
\* are gone); for the report of a knife and scissors it is
\* 'Safety alert: Knife close, left Scissors far, right'.
C16_Normalized ==
  (textPc = "message" /\ report \in DetectionReports) =>
    /\ LitAt(text, 1, Txt_SafetyAlertColon, FALSE)
    /\ \A i \in 1..Len(text) : ~IsDigit(text[i]) /\ text[i] \notin {"(", ")"}
    /\ report = Txt_KnifeScissors => text = Txt_KnifeScissorsNormalized

\* C17: processing the safety statement again, as if it were the hazard report,
\* gives the same statement.
C17_Idempotent ==
  textPc = "again" => text = report

\* C18: in a language other than English, a safetyMessage that holds 'very close'
\* is translated with the entry of 'very close', and no 'very' is left over; for
\* English the safetyMessage is returned as it is.
C18_WholePhrase ==
  textPc = "statement" =>
    IF targetLanguage = 0 THEN text = safetyMessage(report)
    ELSE Occurs(toLowerCase(safetyMessage(report)), Phrases[5]) =>
           /\ \E i \in 1..Len(text) : <<text[i]>> = Localized(LangCode(targetLanguage), 5)
           /\ ~Occurs(toLowerCase(text), <<"v", "e", "r", "y">>)

\* C19: the language index is always one of 0..5, and when it changes it moves
\* to its cyclic successor: i + 1 below 5, and 0 from 5.
C19_IndexCyclic ==
  /\ [](currentLanguageIndex \in 0..5)
  /\ [][currentLanguageIndex' # currentLanguageIndex =>
          currentLanguageIndex' = (IF currentLanguageIndex = 5 THEN 0
                                   ELSE currentLanguageIndex + 1)]_vars

\* the advance from the last language wrapped to the first: a run that started in
\* Malayalam lives on under English
C19_Witness ==
  /\ currentLanguageIndex = 0
  /\ \E s \in Sessions : sessions[s].tornBy = "lang" /\ sessions[s].lang = 5

\* a changeLanguage handler comes to its end in this step: at once, or after its
\* await of unloadAsync
AdvanceStep ==
  \/ ChangeLanguage /\ soundRef = 0
  \/ \E i \in 1..Len(pending) :
       /\ pending[i] = "lang"
       /\ pending' = SubSeq(pending, 1, i - 1) \o SubSeq(pending, i + 1, Len(pending))
       /\ commands' = commands

\* C20: the language index changes in no step but the end of a changeLanguage
\* handler: starts, stops, toggles, returns to the camera, captures and the
\* completions and failures of playback leave it as it is.
C20_OnlyAdvanceChangesIndex ==
  [][currentLanguageIndex' # currentLanguageIndex => AdvanceStep]_vars

\* back on the camera screen, after a run was started and torn down by
\* returnToCamera, the language is still the one the run was started in
C20_Witness ==
  /\ currentScreen = "camera"
  /\ currentLanguageIndex = 3
  /\ \E s \in Sessions : sessions[s].tornBy = "camera" /\ sessions[s].lang = 3

\* C21: the phase flags are consistent: isPlayingDescription and isPlayingHazard
\* are never both true, and when either is true isPlaying is true.
C21_FlagsConsistent ==
  /\ ~(isPlayingDescription /\ isPlayingHazard)
  /\ (isPlayingDescription \/ isPlayingHazard) => isPlaying

\* the sounds that are loaded: created and neither unloaded nor failed
LoadedSounds == {s \in Sessions : sessions[s].snd \in {"playing", "finished"}}

\* C22: at most one sound is loaded, and soundRef.current is the loaded sound.
C22_OneSoundWithHandle ==
  /\ Cardinality(LoadedSounds) <= 1
  /\ \A s \in LoadedSounds : soundRef = s

\* C23: when playTTSAudio fails for the description (as the first attempt or as
\* the fallback), the run ends in that step: it does not wait in the pause, its
\* safety statement is not spoken, the audio error notice is raised and the three
\* flags are false; and a run that has failed speaks nothing afterwards.
C23_FailedDescriptionEndsSession ==
  /\ [](\A s \in Sessions : sessions[s].pc = "failed" => Utterances(s) = {})
  /\ [][\A s \in Sessions :
          (SpeechError /\ Head(speech).s = s /\ Head(speech).unit = "desc") =>
            /\ sessions'[s].pc = "failed"
            /\ alert' = "AudioError"
            /\ \A i \in 1..Len(sessions'[s].calls) : sessions'[s].calls[i] # "S_tts"
            /\ \A t \in Sessions \ {s} : sessions'[t] = sessions[t]
            /\ ~isPlaying' /\ ~isPlayingDescription' /\ ~isPlayingHazard']_vars

\* rendered audio failed, then the synthesis that retried it: the run is over
\* with the notice up, no safety statement called for, and the flags down
C23_Witness ==
  /\ alert = "AudioError"
  /\ ~isPlaying /\ ~isPlayingDescription /\ ~isPlayingHazard
  /\ speech = <<>>
  /\ \E s \in Sessions :
       /\ sessions[s].pc = "failed"
       /\ sessions[s].calls[Len(sessions[s].calls)] = "D_tts"

\* C24: a pending auto-play timeout exists only on the result screen with
\* captions, there is at most one, and it was set for the language index and the
\* captions of the moment (a change of either, or of the screen, replaces or
\* clears it); so the run it starts narrates the current language and analysis,
\* and on the camera screen none is pending.
C24_AutoPlayTimerCurrent ==
  /\ [](/\ Len(timer) <= 1
        /\ timer # <<>> =>
             /\ currentScreen = "result"
             /\ captions # 0
             /\ timer[1].lang = currentLanguageIndex
             /\ timer[1].cap = captions)
  /\ [][(timer # <<>> /\ timer' = <<>> /\ Len(sessions') > Len(sessions)) =>
          /\ sessions'[Len(sessions')].lang = currentLanguageIndex
          /\ sessions'[Len(sessions')].cap = captions
          /\ currentScreen = "result"]_vars

\* after a change of language the timeout pending is the one of the new language,
\* while a run of the language before still lives
C24_Witness ==
  /\ timer # <<>>
  /\ timer[1].lang = currentLanguageIndex
  /\ \E s \in Sessions :
       /\ sessions[s].tornBy = "lang"
       /\ sessions[s].lang # currentLanguageIndex

====
